---- MODULE Spec2Model ----
(***************************************************************************)
(* qimgwatch: an image viewer that re-fetches one URL on a timer.          *)
(*                                                                         *)
(* Model of src/qimgwatch/cmd_qimgwatch.py: the ImageLoader (timer,        *)
(* network reply, coalescing flag, saving of fetched bytes) and the        *)
(* ImgWatch widget (current pixmap, pixmap history, scrub index, paint).   *)
(*                                                                         *)
(* Two specifications share the variables:                                 *)
(*   Spec     - the loader: set_url, timer ticks, download completions.    *)
(*   SpecView - the widget: resize, mouse moves and paint events over a    *)
(*              window state drawn from bounded sets.                      *)
(***************************************************************************)
EXTENDS Integers, Sequences, FiniteSets

\* ---------------------------------------------------------------- bounds
\* Timer ticks in one run (every fetch after the first needs a tick).
MaxTicks == 4
\* Largest --history value.
MaxHistory == 3
\* Largest small frame / viewport dimension drawn in SpecView.
MaxDim == 3

\* ------------------------------------------------------ program constants
\* `ev.pos().y() > self.height() - 200`
StripHeight == 200
\* `thumb_h = 150`
ThumbHeight == 150
\* `self.resize(1280, 720)`
InitWidth == 1280
InitHeight == 720
\* `default=0.5` seconds, `int(1000 * args.interval)`
DefaultInterval == 500
\* `self.network_reply = None`
NoReply == 0
\* `self.pixmap_idx = None`
NoIndex == 0 - 1

\* Size of the image the URL serves in Spec (any decodable image will do).
SourceSize == <<4, 3>>

\* What readAll() can return: bytes of an image, bytes that do not decode,
\* or nothing (a transport error leaves the reply empty).
DataKinds == {"image", "garbage", "empty"}

\* QPixmap(): the null pixmap has width 0 and height 0.
NullPixmap == [id |-> 0, w |-> 0, h |-> 0]

Frame(k, sz) == [id |-> k, w |-> sz[1], h |-> sz[2]]

isNull(p) == p.w = 0 /\ p.h = 0

VARIABLES
    alive,             \* the process has not been aborted
    raised,            \* exception that escaped the last handler, or "none"
    started,           \* set_url has run and the event loop is running
    network_reply,     \* ImageLoader.network_reply (request id, or NoReply)
    instant_reload,    \* ImageLoader.instant_reload
    output_directory,  \* ImageLoader.output_directory is not None
    inflight,          \* requests handed to the network manager, not finished
    issued,            \* number of netmgr.get() calls so far
    ticks,             \* number of timer ticks so far
    reqs,              \* reload_image calls since the outstanding get()
    log,               \* data kind of every handled completion, in order
    files,             \* number of files written by save_image
    archived,          \* every pixmap appended to the history, in order
    pixmap,            \* ImgWatch.pixmap
    pixmap_history,    \* ImgWatch.pixmap_history contents (<<>> when None)
    maxlen,            \* --history value; 0 means pixmap_history is None
    interval,          \* ImageLoader.interval, milliseconds
    pixmap_idx,        \* ImgWatch.pixmap_idx (NoIndex for None)
    width,             \* self.width()
    height,            \* self.height()
    paint              \* what the last handler asked to draw and drew

vars == <<alive, raised, started, network_reply, instant_reload,
          output_directory, inflight, issued, ticks, reqs, log, files,
          archived, pixmap, pixmap_history, maxlen, interval, pixmap_idx,
          width, height, paint>>

loaderVars == <<network_reply, instant_reload, inflight, issued, reqs>>
frameVars == <<pixmap, pixmap_history, archived>>
viewVars == <<pixmap_idx, width, height>>
configVars == <<output_directory, maxlen, interval>>

\* ------------------------------------------------------------- helpers
Min(a, b) == IF a < b THEN a ELSE b
Max(a, b) == IF a > b THEN a ELSE b

\* The last n elements of s (all of s when it is shorter).
LastN(s, n) == SubSeq(s, Max(1, Len(s) - n + 1), Len(s))

Ids(s) == [i \in 1..Len(s) |-> s[i].id]

RECURSIVE CountOf(_, _)
CountOf(s, d) ==
    IF s = <<>> THEN 0
    ELSE (IF Head(s) = d THEN 1 ELSE 0) + CountOf(Tail(s), d)

\* No paint requested by the last handler.
NoPaint == [req |-> FALSE, main |-> 0, rect |-> <<0, 0, 0, 0>>, thumbs |-> <<>>]


\* ------------------------------------------------- ImgWatch.update_pixmap
\* collections.deque(maxlen=n).append(p): at capacity the oldest entry is
\* dropped from the left, then p is added on the right.
deque_append_keep_all(h, p, n) == Append(h, p)

deque_append_drop_newest(h, p, n) ==
    IF Len(h) = n THEN SubSeq(h, 1, n - 1) \o <<p>> ELSE Append(h, p)

deque_append(h, p, n) ==
    IF Len(h) = n THEN Tail(h) \o <<p>> ELSE Append(h, p)

\* QPixmap.fromImage(QImage.fromData(data)): bytes that do not decode give
\* a null image and therefore a null pixmap.
decode(data, k) ==
    IF data = "image" THEN Frame(k, SourceSize) ELSE NullPixmap

update_pixmap_append_new(pm, hist, n, data, k) ==
    LET new == decode(data, k)
        put == ~isNull(new) /\ n > 0
    IN  [pixmap   |-> new,
         history  |-> IF put THEN deque_append(hist, new, n) ELSE hist,
         appended |-> IF put THEN <<new>> ELSE <<>>]

update_pixmap_no_null_check(pm, hist, n, data, k) ==
    [pixmap   |-> decode(data, k),
     history  |-> IF n > 0 THEN deque_append(hist, pm, n) ELSE hist,
     appended |-> IF n > 0 THEN <<pm>> ELSE <<>>]

\* update_pixmap: the old pixmap goes to the history when it is not null
\* and a history exists; the pixmap is then replaced by the decoded data.
update_pixmap(pm, hist, n, data, k) ==
    LET put == ~isNull(pm) /\ n > 0
    IN  [pixmap   |-> decode(data, k),
         history  |-> IF put THEN deque_append(hist, pm, n) ELSE hist,
         appended |-> IF put THEN <<pm>> ELSE <<>>]

\* ------------------------------------------------- ImgWatch.paintEvent
\* Placement of a pw x ph pixmap in a W x H widget.  The code computes
\* sap = pw / ph, tap = W / H in floating point and passes th (or tw) and
\* H // 2 - th // 2 to drawPixmap, which takes their integer part; for the
\* sizes used here the float results equal these integer quotients.
fit_rect_swapped(pw, ph, W, H) ==
    IF pw * H < W * ph
    THEN LET th == (W * ph) \div pw
         IN  <<0, (H \div 2) - (th \div 2), W, th>>
    ELSE LET tw == (pw * H) \div ph
         IN  <<(W \div 2) - (tw \div 2), 0, tw, H>>

fit_rect_uncentred(pw, ph, W, H) ==
    IF pw * H > W * ph
    THEN <<0, 0, W, (W * ph) \div pw>>
    ELSE <<0, 0, (pw * H) \div ph, H>>

fit_rect(pw, ph, W, H) ==
    IF pw * H > W * ph
    THEN LET th == (W * ph) \div pw
         IN  <<0, (H \div 2) - (th \div 2), W, th>>
    ELSE LET tw == (pw * H) \div ph
         IN  <<(W \div 2) - (tw \div 2), 0, tw, H>>

\* The pixmap shown in the main view.
chosen_pixmap(pm, hist, n, idx) ==
    IF idx = NoIndex \/ n = 0 THEN pm
    ELSE IF 0 <= idx /\ idx < Len(hist) THEN hist[idx + 1]
    ELSE pm

\* paintEvent: nothing is drawn for a null pixmap; otherwise the chosen
\* pixmap is letterboxed and every history entry gets a thumbnail.
paintEvent(pm, hist, n, idx, W, H) ==
    IF isNull(pm)
    THEN [req |-> TRUE, main |-> 0, rect |-> <<0, 0, 0, 0>>, thumbs |-> <<>>]
    ELSE LET c == chosen_pixmap(pm, hist, n, idx)
         IN  [req    |-> TRUE,
              main   |-> c.id,
              rect   |-> fit_rect(c.w, c.h, W, H),
              thumbs |-> IF n = 0 THEN <<>>
                         ELSE [i \in 1..Len(hist) |->
                                 <<(i - 1) * (W \div n), H - ThumbHeight,
                                   W \div n, ThumbHeight>>]]

\* ------------------------------------------------- ImageLoader.reload_image
\* A request is issued only when none is outstanding; otherwise the call
\* is remembered in instant_reload.
reload_image_always(reply, flag, n) ==
    [network_reply |-> n + 1, instant_reload |-> flag, get |-> TRUE]

reload_image(reply, flag, n) ==
    IF reply = NoReply
    THEN [network_reply |-> n + 1, instant_reload |-> flag, get |-> TRUE]
    ELSE [network_reply |-> reply, instant_reload |-> TRUE, get |-> FALSE]

\* Values of int(1000 * args.interval) tried: --interval is any float, so
\* the milliseconds may be negative, zero or positive.
Intervals == {0 - DefaultInterval, 0, DefaultInterval}

\* timer.start(interval): Qt refuses to start a timer with a negative
\* interval; with 0 the timer fires on every pass of the event loop.
TimerActive == interval >= 0

\* State after construction: main() has built the loader and the window
\* from the command line (--outdir given or not, --history n).
Init ==
    /\ alive = TRUE
    /\ raised = "none"
    /\ started = FALSE
    /\ network_reply = NoReply
    /\ instant_reload = FALSE
    /\ output_directory \in BOOLEAN
    /\ inflight = {}
    /\ issued = 0
    /\ ticks = 0
    /\ reqs = 0
    /\ log = <<>>
    /\ files = 0
    /\ archived = <<>>
    /\ pixmap = NullPixmap
    /\ pixmap_history = <<>>
    /\ maxlen \in 0..MaxHistory
    /\ interval \in Intervals
    /\ pixmap_idx = NoIndex
    /\ width = InitWidth
    /\ height = InitHeight
    /\ paint = NoPaint

\* The loader part of a reload_image call made from outside a completion.
CallReload ==
    LET r == reload_image(network_reply, instant_reload, issued)
    IN  /\ network_reply' = r.network_reply
        /\ instant_reload' = r.instant_reload
        /\ issued' = IF r.get THEN issued + 1 ELSE issued
        /\ inflight' = IF r.get THEN inflight \cup {issued + 1} ELSE inflight
        /\ reqs' = IF r.get THEN 0 ELSE reqs + 1

\* set_url: the startup reload; the event loop runs from here on.
set_url ==
    /\ alive /\ ~started
    /\ started' = TRUE
    /\ CallReload
    /\ raised' = "none"
    /\ paint' = NoPaint
    /\ UNCHANGED <<alive, ticks, log, files, frameVars, viewVars, configVars>>

\* timer.timeout -> reload_image
TimerTick ==
    /\ alive /\ started
    /\ TimerActive
    /\ ticks < MaxTicks
    /\ ticks' = ticks + 1
    /\ CallReload
    /\ raised' = "none"
    /\ paint' = NoPaint
    /\ UNCHANGED <<alive, started, log, files, frameVars, viewVars, configVars>>

\* netmgr.finished -> _download_finished(reply), with the data the reply
\* holds, whether the write in save_image succeeds, and whether the process
\* survives an exception that escapes the slot (PyQt aborts or carries on,
\* depending on its version).
download_finished(reply, data, writeOk, survives) ==
    /\ alive /\ started
    /\ reply \in inflight
    /\ UNCHANGED <<started, ticks, viewVars, configVars>>
    /\ IF reply # network_reply
       THEN \* assert reply == self.network_reply
            /\ raised' = "AssertionError"
            /\ alive' = survives
            /\ inflight' = inflight \ {reply}
            /\ paint' = NoPaint
            /\ UNCHANGED <<network_reply, instant_reload, issued, reqs, log,
                           files, frameVars>>
       ELSE LET u == update_pixmap(pixmap, pixmap_history, maxlen, data, reply)
            IN  /\ pixmap' = u.pixmap
                /\ pixmap_history' = u.history
                /\ archived' = archived \o u.appended
                /\ log' = Append(log, data)
                /\ IF output_directory /\ ~writeOk
                   THEN \* open()/write() raises inside save_image
                        /\ raised' = "OSError"
                        /\ alive' = survives
                        /\ inflight' = inflight \ {reply}
                        /\ paint' = NoPaint
                        /\ UNCHANGED <<network_reply, instant_reload, issued,
                                       reqs, files>>
                   ELSE /\ raised' = "none"
                        /\ alive' = alive
                        /\ files' = IF output_directory THEN files + 1 ELSE files
                        /\ paint' = paintEvent(u.pixmap, u.history, maxlen,
                                               pixmap_idx, width, height)
                        /\ IF instant_reload
                           THEN LET r == reload_image(NoReply, FALSE, issued)
                                IN  /\ network_reply' = r.network_reply
                                    /\ instant_reload' = r.instant_reload
                                    /\ issued' = IF r.get THEN issued + 1 ELSE issued
                                    /\ inflight' = IF r.get
                                                   THEN (inflight \ {reply}) \cup {issued + 1}
                                                   ELSE inflight \ {reply}
                                    /\ reqs' = 0
                           ELSE /\ network_reply' = NoReply
                                /\ instant_reload' = FALSE
                                /\ inflight' = inflight \ {reply}
                                /\ UNCHANGED <<issued, reqs>>

DownloadFinished ==
    \E reply \in inflight, data \in DataKinds, writeOk \in BOOLEAN,
       survives \in BOOLEAN :
        download_finished(reply, data, writeOk, survives)

Next ==
    \/ set_url
    \/ TimerTick
    \/ DownloadFinished

Spec == Init /\ [][Next]_vars


\* ------------------------------------------------- ImgWatch.mouseMoveEvent
\* idx = max(0, min(x // w, maxlen)) with w = width // maxlen
scrub_index(x, W, n) == Max(0, Min(x \div (W \div n), n))

\* `if self.pixmap_idx != idx`: only a new index is stored and repainted.
scrub_changed_always(old, idx) == TRUE

scrub_changed(old, idx) == old # idx

\* The handler's scrub part (the window drag under the left button only
\* moves the window on the screen, which nothing modelled here reads).
mouseMoveEvent(x, y, survives) ==
    /\ alive /\ started
    /\ UNCHANGED <<started, loaderVars, ticks, log, files, frameVars,
                   width, height, configVars>>
    /\ IF maxlen = 0
       THEN \* pixmap_history is None
            /\ raised' = "none" /\ paint' = NoPaint
            /\ UNCHANGED <<alive, pixmap_idx>>
       ELSE IF y > height - StripHeight
       THEN IF width \div maxlen = 0
            THEN \* ev.pos().x() // 0
                 /\ raised' = "ZeroDivisionError"
                 /\ alive' = survives
                 /\ paint' = NoPaint
                 /\ UNCHANGED pixmap_idx
            ELSE LET idx == scrub_index(x, width, maxlen)
                 IN  /\ raised' = "none"
                     /\ UNCHANGED alive
                     /\ IF scrub_changed(pixmap_idx, idx)
                        THEN /\ pixmap_idx' = idx
                             /\ paint' = paintEvent(pixmap, pixmap_history,
                                                    maxlen, idx, width, height)
                        ELSE /\ UNCHANGED pixmap_idx
                             /\ paint' = NoPaint
       ELSE /\ pixmap_idx' = NoIndex
            /\ raised' = "none" /\ paint' = NoPaint
            /\ UNCHANGED alive

\* Pointer positions tried: inside the widget, on its edges, and just
\* outside (a drag with the button held reports those too); y on both
\* sides of the strip's upper edge.
PointerXs(W) == {0 - 1, 0, W \div 2, W - 1, W} \cup (0..MaxDim)
PointerYs(H) == {0, H - 1, H - StripHeight, H - StripHeight + 1}

MouseMove ==
    \E x \in PointerXs(width), y \in PointerYs(height), survives \in BOOLEAN :
        mouseMoveEvent(x, y, survives)

\* The window is resized (by the user or the window manager): width() and
\* height() change, nothing else does.
ViewWidths == 1..MaxDim
ViewHeights == (1..MaxDim) \cup {StripHeight + d : d \in 1..MaxDim}

resizeEvent(W, H) ==
    /\ alive /\ started
    /\ width' = W /\ height' = H
    /\ raised' = "none" /\ paint' = NoPaint
    /\ UNCHANGED <<alive, started, loaderVars, ticks, log, files, frameVars,
                   pixmap_idx, configVars>>

Resize == \E W \in ViewWidths, H \in ViewHeights : resizeEvent(W, H)

\* A paint event delivered by the window system.
PaintEvent ==
    /\ alive /\ started
    /\ paint' = paintEvent(pixmap, pixmap_history, maxlen, pixmap_idx,
                           width, height)
    /\ raised' = "none"
    /\ UNCHANGED <<alive, started, loaderVars, ticks, log, files, frameVars,
                   viewVars, configVars>>

\* Window states for SpecView: the loader is idle after k completed
\* fetches of a pw x ph image, the last of which may have failed to
\* decode; the history holds what update_pixmap left there.
FramesUpTo(k, sz) == [i \in 1..k |-> Frame(i, sz)]

\* Sizes of the served image: every small size and a 16:9 video frame.
FrameSizes == ((1..MaxDim) \X (1..MaxDim)) \cup {<<1920, 1080>>}

InitView ==
    \E k \in 0..(MaxHistory + 1), failed \in BOOLEAN, sz \in FrameSizes :
        LET good == IF failed /\ k > 0 THEN k - 1 ELSE k
            arch == IF failed THEN FramesUpTo(good, sz)
                    ELSE FramesUpTo(Max(0, good - 1), sz)
        IN  /\ alive = TRUE
            /\ raised = "none"
            /\ started = TRUE
            /\ network_reply = NoReply
            /\ instant_reload = FALSE
            /\ output_directory = FALSE
            /\ inflight = {}
            /\ issued = k
            /\ ticks = 0
            /\ reqs = 0
            /\ log = [i \in 1..k |-> IF i > good THEN "garbage" ELSE "image"]
            /\ files = 0
            /\ maxlen \in 0..MaxHistory
            /\ interval = DefaultInterval
            /\ archived = IF maxlen = 0 THEN <<>> ELSE arch
            /\ pixmap = IF failed \/ k = 0 THEN NullPixmap ELSE Frame(k, sz)
            /\ pixmap_history = IF maxlen = 0 THEN <<>> ELSE LastN(arch, maxlen)
            /\ pixmap_idx = NoIndex
            /\ width = InitWidth
            /\ height = InitHeight
            /\ paint = NoPaint

NextView ==
    \/ MouseMove
    \/ Resize
    \/ PaintEvent

SpecView == InitView /\ [][NextView]_vars

\* ======================================================================
\* Properties
\* ======================================================================

\* A fetch completion was handled in this step.
Completed == Len(log') = Len(log) + 1
\* ... and its data did not decode (transport error or bad bytes).
CompletedFailed == Completed /\ log'[Len(log')] # "image"

\* C1: at most one fetch request is outstanding in every reachable state.
C1_AtMostOneOutstanding ==
    /\ Cardinality(inflight) <= 1
    /\ inflight \subseteq {network_reply}

\* C1 witness: reload requests arrived while a fetch was outstanding.
C1_Witness == Cardinality(inflight) = 1 /\ instant_reload /\ reqs >= 2

\* C2: when a fetch completes after k >= 1 reload requests arrived during
\* it, exactly one new fetch is issued by the completion.
C2_ExactlyOneReplay ==
    [][(Completed /\ reqs >= 1) => issued' = issued + 1]_vars

\* C3: a failed fetch completion leaves the current frame as it was.
C3_FailureKeepsFrame ==
    [][CompletedFailed => pixmap' = pixmap]_vars

\* C4: after a completion whose save failed, the loader has left the
\* in-flight state, so the next reload request issues a fetch.
C4_SaveFailureLeavesInFlight ==
    raised = "OSError" => network_reply = NoReply

\* C5: the history never exceeds its capacity and holds the last maxlen
\* archived frames in the order they were archived.
C5_HistoryFifo ==
    maxlen >= 1 =>
        /\ Len(pixmap_history) <= maxlen
        /\ pixmap_history = LastN(archived, maxlen)

\* C5 witness: more frames were archived than the history can hold.
C5_Witness == maxlen >= 1 /\ Len(archived) > maxlen

\* F1..F5 were fetched and decoded in that order with capacity 3.
FiveFramesCapacityThree ==
    maxlen = 3 /\ log = <<"image", "image", "image", "image", "image">>

\* C6 as stated: capacity 3, F1..F5 decoded in order: the current frame is
\* F5 and the history is [F3, F4].
C6_Original ==
    FiveFramesCapacityThree =>
        pixmap.id = 5 /\ Ids(pixmap_history) = <<3, 4>>

\* C6 amended: capacity 3, F1..F5 decoded in order: the current frame is
\* F5 and the history is [F2, F3, F4].
C6_HistoryAfterFive ==
    FiveFramesCapacityThree =>
        pixmap.id = 5 /\ Ids(pixmap_history) = <<2, 3, 4>>

\* C6 witness: the fifth frame has just been installed.
C6_Witness == FiveFramesCapacityThree /\ pixmap.id = 5

\* C7: with an output directory, a handled completion writes one file when
\* its bytes decoded and none when they did not (transport failure or bad
\* bytes), so the files written are as many as the decoded completions.
C7_OneFilePerDecodedFrame ==
    [][(Completed /\ output_directory /\ raised' = "none") =>
          files' = files + (IF log'[Len(log')] = "image" THEN 1 ELSE 0)]_vars

\* C8: a failed fetch completion requests no redraw.
C8_FailureNoRedraw ==
    [][CompletedFailed => ~paint'.req]_vars

\* C9: the scrub selection is none or an index in 0..maxlen-1.
C9_ScrubIndexInRange ==
    maxlen >= 1 => (pixmap_idx = NoIndex \/ pixmap_idx \in 0..(maxlen - 1))

\* C10: the rectangle the main frame is drawn into lies inside the viewport.
C10_RectInsideViewport ==
    (paint.req /\ paint.main # 0) =>
        /\ paint.rect[1] >= 0
        /\ paint.rect[2] >= 0
        /\ paint.rect[1] + paint.rect[3] <= width
        /\ paint.rect[2] + paint.rect[4] <= height

\* C10 witness: a frame was drawn letterboxed, with a margin above it.
C10_Witness == paint.req /\ paint.main # 0 /\ paint.rect[2] > 0


\* o is the offset that centres a span of length len in total (to a pixel).
Centred(o, len, total) == 2 * o + len - total \in {0 - 1, 0, 1}

C12_NonPositiveIntervalRejected ==
    interval <= 0 => (issued = 0 /\ ticks = 0)


\* C13: on every redraw the main view shows the history frame at the scrub
\* index when 0 <= index < len(history), and the current frame otherwise.
C13_MainFrameChoice ==
    paint.req =>
        paint.main = (IF 0 <= pixmap_idx /\ pixmap_idx < Len(pixmap_history)
                      THEN pixmap_history[pixmap_idx + 1].id
                      ELSE pixmap.id)


\* The frames of a sequence are pairwise different.
Distinct(s) == \A i, j \in 1..Len(s) : i # j => s[i].id # s[j].id

\* C14: no frame is in two containers at once: the current frame is never
\* an element of the history (nor is a frame there twice), and a frame
\* enters the history only in the completion step that replaces it as the
\* current frame.
C14_SingleOwner ==
    /\ [](/\ \A i \in 1..Len(pixmap_history) : pixmap_history[i] # pixmap
          /\ Distinct(pixmap_history))
    /\ [][archived' # archived =>
            /\ Completed
            /\ archived' = Append(archived, pixmap)
            /\ pixmap_history'[Len(pixmap_history')] = pixmap
            /\ pixmap' # pixmap]_vars

\* C14 witness: a frame is current while earlier frames sit in the history.
C14_Witness == ~isNull(pixmap) /\ Len(pixmap_history) >= 2

\* C17: the history holds only decoded, non-null frames, and nothing is
\* ever appended when the capacity is 0.
C17_HistoryOnlyDecodedFrames ==
    /\ \A i \in 1..Len(pixmap_history) :
           ~isNull(pixmap_history[i]) /\ pixmap_history[i].id >= 1
    /\ \A i \in 1..Len(archived) : ~isNull(archived[i])
    /\ maxlen = 0 => (pixmap_history = <<>> /\ archived = <<>>)

\* C17 witness: a completion arrived while the current pixmap was null
\* after a failed fetch, with frames already in the history.
C17_Witness ==
    /\ maxlen >= 1 /\ Len(pixmap_history) >= 1
    /\ \E i \in 1..(Len(log) - 1) : log[i] # "image" /\ i >= 2

\* C19: a failed fetch completion leaves the history as it was.
C19_FailureKeepsHistory ==
    [][CompletedFailed => pixmap_history' = pixmap_history]_vars


\* C15: while the history buffer is empty the scrub selection is none,
\* whatever pointer moves were made.
C15_EmptyHistoryNoSelection ==
    Len(pixmap_history) = 0 => pixmap_idx = NoIndex

\* C16: a pointer move requests a redraw only if it changes the stored
\* scrub index; a move that maps to the stored index requests none (no
\* step that requests a redraw and keeps the index is a pointer move).
C16_RedrawOnlyOnChange ==
    [][(paint'.req /\ pixmap_idx' = pixmap_idx) => ~MouseMove]_vars

\* C16 witness: an index is selected and the selecting move has repainted.
C16_Witness ==
    pixmap_idx # NoIndex /\ paint.req /\ paint.main # 0 /\ raised = "none"

\* C20: a pointer move inside the strip never divides by zero, also when
\* the window is narrower than the history capacity.
C20_NoDivisionByZero ==
    raised # "ZeroDivisionError"


\* C18: a reload request that arrived during a fetch is not lost: the
\* pending flag is set only while a fetch is in flight, whose completion
\* will issue the fetch that serves the request.
C18_PendingOnlyWhileInFlight ==
    instant_reload => Cardinality(inflight) = 1

====
